---- MODULE Spec2Model ----
(***************************************************************************)
(* Location checker: the session controller (App), the device provider     *)
(* (useNavigatorProvider), the remote API provider (useGoogleProvider),    *)
(* the IP provider (useIpProvider) and the credential store.               *)
(*                                                                         *)
(* The program is single threaded.  One action of the model is one task of *)
(* the event loop: a UI event handler, the arrival of an HTTP response, a  *)
(* callback of the platform's geolocation service, or one promise reaction *)
(* (microtask).  Promise reactions run before any other task, so every     *)
(* other action is disabled while the microtask queue is not empty.        *)
(***************************************************************************)
EXTENDS Integers, Sequences, FiniteSets, TLC

\* ------------------------------------------------------------------ bounds
\* acquisitions (getLocation calls of the controller) started in one run
MaxCalls == 3
\* HTTP requests one remote-provider acquisition may send
MaxRequests == 3

\* ------------------------------------------------------------------ values
Providers == {"navigator", "google", "ip"}
\* Object.values(providers): insertion order of the providers record
ProviderOrder == <<"navigator", "google", "ip">>

\* null / undefined / "" of a credential: all falsy in `if (!key)`
NoKey == ""
\* the credential a previous session may have left in localStorage
StoredKeys == {NoKey, "K1"}
\* what window.prompt may return (NoKey: cancelled or left empty)
PromptAnswers == {NoKey, "K2"}

\* watchIdRef.current === null
NoWatch == -1
\* the first identifier the platform hands out for a watch (the Geolocation
\* API has watch identifiers greater than zero)
FirstWatchIds == {1}

\* an absent field of a JSON body or of an error (undefined)
Absent == 999
\* !x of a number that may be absent: undefined and 0 are both falsy
Falsy(x) == x = Absent \/ x = 0

\* texts with an interpolated part are sequences of their parts
NoError == [message |-> "", details |-> <<>>]
NoToast == [message |-> <<>>, type |-> ""]
NoLocation == [lat |-> Absent, lon |-> Absent, accuracy |-> Absent, provider |-> "", isLive |-> FALSE]

\* mobile country / network codes the form may hold
MccValues == { <<>>, <<"a", "b", "c">>, <<"3", "1", "0">> }
MncValues == { <<>>, <<"x">>, <<"2", "6", "0">> }
\* data.error.message of an error body ("" when the body has none)
KeyNotValidMessage == "API key not valid. Please pass a valid API key."
ServerMessages == {"", KeyNotValidMessage, "Invalid JSON payload received."}

\* HTTP statuses of the geolocation API (200 is response.ok)
GoogleStatuses == {200, 400, 403, 429}
\* HTTP statuses of the IP lookup service
IpStatuses == {200, 429}
\* bodies of a successful IP lookup
IpBodies ==
    { [latitude |-> 10, longitude |-> 20],
      [latitude |-> 0, longitude |-> 20],
      [latitude |-> Absent, longitude |-> 20],
      [latitude |-> 10, longitude |-> Absent] }
\* GeolocationPositionError.code the platform reports (PERMISSION_DENIED, TIMEOUT)
PositionErrorCodes == {1, 3}

VARIABLES
    \* App (controller) state
    currentProvider, loading, error, location, toast,
    \* App state: provider options
    liveTracking, gpsTimeout, useWifi, useCellular, useIp, networkInfo,
    \* useGoogleProvider state and the credential store (localStorage)
    apiKey, storedApiKey, wifiNetworks,
    \* useNavigatorProvider ref and the platform's geolocation service
    watchIdRef, geoSupported, geoWatches, nextWatchId,
    \* the acquisitions that can still call back (by number), how many were
    \* started so far, pending promise reactions
    calls, started, microtasks,
    \* history: the operations of the last task, in program order
    opLog

vars == << currentProvider, loading, error, location, toast,
           liveTracking, gpsTimeout, useWifi, useCellular, useIp, networkInfo,
           apiKey, storedApiKey, wifiNetworks,
           watchIdRef, geoSupported, geoWatches, nextWatchId,
           calls, started, microtasks, opLog >>

\* the options of the render, which a getLocation closure captures
Options ==
    [ liveTracking |-> liveTracking, gpsTimeout |-> gpsTimeout,
      useWifi |-> useWifi, useCellular |-> useCellular, useIp |-> useIp,
      mcc |-> networkInfo.mcc, mnc |-> networkInfo.mnc,
      wifiCount |-> wifiNetworks ]

\* the mutable state a task works on, threaded through its statements; the
\* log of operations starts empty with every task
World ==
    [ currentProvider |-> currentProvider, loading |-> loading, error |-> error,
      location |-> location, toast |-> toast,
      apiKey |-> apiKey, storedApiKey |-> storedApiKey,
      watchIdRef |-> watchIdRef, geoWatches |-> geoWatches, nextWatchId |-> nextWatchId,
      calls |-> calls, started |-> started, microtasks |-> microtasks, opLog |-> <<>> ]

\* nothing of call c is outstanding: no fetch, no single reading, no watch
Finished(c, watches) ==
    ~c.awaiting /\ c.watch \notin watches

\* the closures of finished acquisitions are garbage
Collect(cs, watches) ==
    [i \in {j \in DOMAIN cs : ~Finished(cs[j], watches)} |-> cs[i]]

Commit(w) ==
    /\ currentProvider' = w.currentProvider
    /\ loading' = w.loading
    /\ error' = w.error
    /\ location' = w.location
    /\ toast' = w.toast
    /\ apiKey' = w.apiKey
    /\ storedApiKey' = w.storedApiKey
    /\ watchIdRef' = w.watchIdRef
    /\ geoWatches' = w.geoWatches
    /\ nextWatchId' = w.nextWatchId
    /\ calls' = Collect(w.calls, w.geoWatches)
    /\ started' = w.started
    /\ microtasks' = w.microtasks
    /\ opLog' = w.opLog

OptionsUnchanged ==
    UNCHANGED << liveTracking, gpsTimeout, useWifi, useCellular, useIp, networkInfo,
                 wifiNetworks, geoSupported >>

\* ------------------------------------------------------------ LocationError
LocationError(message, userMessage, userDetails) ==
    [ name |-> "LocationError", message |-> message, userMessage |-> userMessage,
      userDetails |-> userDetails, code |-> Absent, status |-> 0 ]

\* an error that is no LocationError: a TypeError of fetch, a SyntaxError of json()
RawError(name, message) ==
    [ name |-> name, message |-> message, userMessage |-> "", userDetails |-> <<>>,
      code |-> Absent, status |-> 0 ]

\* ------------------------------------------------------------ log
\* an entry of opLog: operation op, with a text and a number, of no acquisition
\* (Event) or of acquisition i, which is of provider `by` (EventOf)
Event(op, arg, status) ==
    [op |-> op, call |-> 0, by |-> "", arg |-> arg, status |-> status]

EventOf(w, i, op, arg, status) ==
    [op |-> op, call |-> i, by |-> w.calls[i].provider, arg |-> arg, status |-> status]

Log(w, e) ==
    [w EXCEPT !.opLog = Append(@, e)]

\* ------------------------------------------------------------ controller
\* the staleness filter left out: every update is taken
HandleLocationUpdateUnfiltered(w, locationData) ==
    [Log(w, Event("update", locationData.provider, 0))
        EXCEPT !.loading = FALSE, !.error = NoError, !.location = locationData]

HandleLocationUpdate(w, locationData) ==
    LET w1 == Log(w, Event("update", locationData.provider, 0))
    IN IF locationData.provider # w.currentProvider
       THEN w1
       ELSE [w1 EXCEPT !.loading = FALSE, !.error = NoError, !.location = locationData]

\* a projection that looks at the code before the structured fields
ErrorProjectionCodeFirst(err, timeout) ==
    IF ~Falsy(err.code)
    THEN CASE err.code = 1 ->
                [ message |-> "Location access denied",
                  details |-> <<"Please enable location services in your browser settings and try again.">>,
                  toast |-> <<"Location access denied. Please enable location services in your browser settings.">> ]
           [] err.code = 2 ->
                [ message |-> "Location unavailable",
                  details |-> <<"Unable to determine your location.">>,
                  toast |-> <<"Unable to determine your location. Try moving to a location with better GPS signal.">> ]
           [] err.code = 3 ->
                [ message |-> "Location request timeout",
                  details |-> <<"Request timed out after", ToString(timeout), "seconds.">>,
                  toast |-> <<"Location request timed out after", ToString(timeout),
                             "seconds. Try increasing the timeout.">> ]
           [] OTHER ->
                [ message |-> IF err.message # "" THEN err.message
                              ELSE "Unknown geolocation error occurred",
                  details |-> <<"Please try again or use a different provider">>,
                  toast |-> <<"Location error occurred. Try a different provider.">> ]
    ELSE IF err.userMessage # "" /\ err.userDetails # <<>>
    THEN [ message |-> err.userMessage, details |-> err.userDetails,
           toast |-> <<err.userMessage>> ]
    ELSE [ message |-> IF err.message # "" THEN err.message ELSE "Unknown error occurred",
           details |-> <<"Please try again or use a different provider">>,
           toast |-> <<"An error occurred while getting your location.">> ]

ErrorProjection(err, timeout) ==
    IF err.userMessage # "" /\ err.userDetails # <<>>
    THEN [ message |-> err.userMessage, details |-> err.userDetails,
           toast |-> <<err.userMessage>> ]
    ELSE IF ~Falsy(err.code)
    THEN CASE err.code = 1 ->
                [ message |-> "Location access denied",
                  details |-> <<"Please enable location services in your browser settings and try again.">>,
                  toast |-> <<"Location access denied. Please enable location services in your browser settings.">> ]
           [] err.code = 2 ->
                [ message |-> "Location unavailable",
                  details |-> <<"Unable to determine your location.">>,
                  toast |-> <<"Unable to determine your location. Try moving to a location with better GPS signal.">> ]
           [] err.code = 3 ->
                [ message |-> "Location request timeout",
                  details |-> <<"Request timed out after", ToString(timeout), "seconds.">>,
                  toast |-> <<"Location request timed out after", ToString(timeout),
                             "seconds. Try increasing the timeout.">> ]
           [] OTHER ->
                [ message |-> IF err.message # "" THEN err.message
                              ELSE "Unknown geolocation error occurred",
                  details |-> <<"Please try again or use a different provider">>,
                  toast |-> <<"Location error occurred. Try a different provider.">> ]
    ELSE [ message |-> IF err.message # "" THEN err.message ELSE "Unknown error occurred",
           details |-> <<"Please try again or use a different provider">>,
           toast |-> <<"An error occurred while getting your location.">> ]

\* a handler that reports the failure and leaves loading as it is
HandleErrorKeepsLoading(w, err) ==
    LET p == ErrorProjection(err, gpsTimeout)
    IN [w EXCEPT !.error = [message |-> p.message, details |-> p.details],
                 !.toast = [message |-> p.toast, type |-> "error"]]

HandleError(w, err) ==
    LET p == ErrorProjection(err, gpsTimeout)
    IN [w EXCEPT !.error = [message |-> p.message, details |-> p.details],
                 !.loading = FALSE,
                 !.toast = [message |-> p.toast, type |-> "error"]]

\* promise.catch(handleError) of acquisition i: the reaction runs as a microtask
QueueRejection(w, i, err) ==
    [w EXCEPT !.microtasks = Append(@, [err |-> err, call |-> i, by |-> w.calls[i].provider])]

\* String.prototype.includes, on the texts that occur
Includes(text, part) ==
    <<text, part>> \in { <<KeyNotValidMessage, "API key not valid">>,
                         <<"Failed to fetch", "fetch">> }

\* ------------------------------------------------------------ acquisitions
\* One getLocation call of the controller.  settled: the state of the promise
\* the controller holds; awaiting: a fetch or a single reading is outstanding;
\* opts, held: the props and the apiKey state its closure captured; key: the
\* credential of the last request; nreq: the requests it has sent.
NewCall(id, provider, opts, held) ==
    [ id |-> id, provider |-> provider, settled |-> "pending", awaiting |-> FALSE,
      opts |-> opts, watch |-> NoWatch, held |-> held, key |-> NoKey, nreq |-> 0 ]

\* the promise of call i rejects with err: the controller's .catch(handleError)
\* is queued (a promise settles once: a later reject or resolve is ignored)
Reject(w, i, err) ==
    IF w.calls[i].settled # "pending"
    THEN w
    ELSE QueueRejection(
            Log([w EXCEPT !.calls[i].settled = "rejected"],
                EventOf(w, i, "reject", err.message, err.status)),
            i, err)

\* a promise that settles again with every resolve
ResolveAgain(w, i) ==
    Log([w EXCEPT !.calls[i].settled = "resolved"], EventOf(w, i, "resolve", "", 0))

Resolve(w, i) ==
    IF w.calls[i].settled # "pending"
    THEN w
    ELSE Log([w EXCEPT !.calls[i].settled = "resolved"], EventOf(w, i, "resolve", "", 0))

\* onError(error) of a provider's props: the controller's handleError, synchronously
OnError(w, i, err) ==
    HandleError(Log(w, EventOf(w, i, "onError", err.message, err.status)), err)

\* ------------------------------------------------------------ device provider
\* a cleanup that clears the watch and keeps its identifier
NavigatorCleanupKeepsRef(w) ==
    IF w.watchIdRef # NoWatch /\ w.watchIdRef # 0
    THEN [Log(w, Event("clearWatch", "", w.watchIdRef))
            EXCEPT !.geoWatches = @ \ {w.watchIdRef}]
    ELSE w

NavigatorCleanup(w) ==
    \* if (watchIdRef.current): null and 0 are both falsy
    IF w.watchIdRef # NoWatch /\ w.watchIdRef # 0
    THEN [Log(w, Event("clearWatch", "", w.watchIdRef))
            EXCEPT !.geoWatches = @ \ {w.watchIdRef}, !.watchIdRef = NoWatch]
    ELSE w

\* err.message of a GeolocationPositionError
PositionErrorMessage(code) ==
    CASE code = 1 -> "User denied Geolocation"
      [] code = 2 -> "Position unavailable"
      [] OTHER -> "Timeout expired"

NavigatorError(code, timeout) ==
    CASE code = 1 ->
            LocationError(PositionErrorMessage(code), "Location access denied",
                <<"Please enable location services in your browser settings and try again.">>)
      [] code = 2 ->
            LocationError(PositionErrorMessage(code), "Location unavailable",
                <<"Unable to determine your location.">>)
      [] code = 3 ->
            LocationError(PositionErrorMessage(code), "Location request timeout",
                <<"Request timed out after", ToString(timeout), "seconds.">>)
      [] OTHER ->
            LocationError(PositionErrorMessage(code), "Location error",
                <<"An unknown error occurred while getting your location.">>)

\* a provider that registers a watch whatever liveTracking says
NavigatorGetLocationAlwaysWatch(w, i, supported) ==
    IF ~supported
    THEN Reject(w, i, LocationError("Geolocation not supported",
                        "Browser doesn't support location",
                        <<"Please use a modern browser that supports geolocation or try a different provider.">>))
    ELSE [w EXCEPT !.watchIdRef = w.nextWatchId,
                   !.geoWatches = @ \cup {w.nextWatchId},
                   !.nextWatchId = @ + 1,
                   !.calls[i].watch = w.nextWatchId,
                   !.calls[i].awaiting = ~w.calls[i].opts.liveTracking]

\* getLocation of the device provider for call i (already in w.calls)
NavigatorGetLocation(w, i, supported) ==
    IF ~supported
    THEN Reject(w, i, LocationError("Geolocation not supported",
                        "Browser doesn't support location",
                        <<"Please use a modern browser that supports geolocation or try a different provider.">>))
    ELSE IF w.calls[i].opts.liveTracking
    THEN [w EXCEPT !.watchIdRef = w.nextWatchId,
                   !.geoWatches = @ \cup {w.nextWatchId},
                   !.nextWatchId = @ + 1,
                   !.calls[i].watch = w.nextWatchId]
    ELSE [w EXCEPT !.calls[i].awaiting = TRUE]

\* the platform may call back call i: its watch is registered, or its single
\* reading is outstanding
NavigatorLive(c, watches) ==
    /\ c.provider = "navigator"
    /\ IF c.opts.liveTracking THEN c.watch \in watches ELSE c.awaiting

\* a reading of the platform
NavigatorFixes == { [lat |-> 48, lon |-> 2, accuracy |-> 25] }

HandlePosition(w, i, fix) ==
    LET c == w.calls[i]
        locationData == [ lat |-> fix.lat, lon |-> fix.lon, accuracy |-> fix.accuracy,
                          provider |-> "navigator", isLive |-> c.opts.liveTracking ]
        w1 == Log([w EXCEPT !.calls[i].awaiting = FALSE], EventOf(w, i, "position", "", 0))
    IN Resolve(HandleLocationUpdate(w1, locationData), i)

HandlePositionError(w, i, code) ==
    LET w1 == Log([w EXCEPT !.calls[i].awaiting = FALSE],
                  EventOf(w, i, "positionError", "", code))
    IN Reject(w1, i, NavigatorError(code, w.calls[i].opts.gpsTimeout))

\* ------------------------------------------------------------ IP provider
IpCleanup(w) == w

IpGetLocation(w, i) ==
    [w EXCEPT !.calls[i].awaiting = TRUE]

\* catch block of useIpProvider.getLocation
IpCatch(w, i, err) ==
    LET e == IF err.name = "LocationError" THEN err
             ELSE IF err.name = "TypeError" /\ Includes(err.message, "fetch")
             THEN LocationError(err.message, "Network error",
                    <<"Failed to connect to IP geolocation service. Please check your internet connection and try again.">>)
             ELSE LocationError(IF err.message # "" THEN err.message ELSE "Unknown error",
                    "IP Geolocation error",
                    <<"An unexpected error occurred while getting location from IP. Please try a different provider.">>)
    IN Reject(OnError(w, i, e), i, e)

\* the lookup of call i answered with this status and body
IpResponse(w, i, status, body) ==
    LET w1 == [w EXCEPT !.calls[i].awaiting = FALSE]
        \* the data of an ok response, as the provider logs it
        wd == Log(Log(w1, EventOf(w, i, "latitude", "", body.latitude)),
                  EventOf(w, i, "longitude", "", body.longitude))
    IN IF status # 200
       THEN LET e == IF status = 429
                     THEN LocationError("Rate limit exceeded", "Rate limit exceeded",
                            <<"Too many requests to IP geolocation service. Please wait a moment and try again.">>)
                     ELSE LocationError("IP Geolocation service error", "IP Geolocation error",
                            <<"Failed to get location using IP address. Please try a different provider.">>)
            IN IpCatch(w1, i, [e EXCEPT !.status = status])
       ELSE IF Falsy(body.latitude) \/ Falsy(body.longitude)
       THEN IpCatch(wd, i, LocationError("Invalid location data", "Invalid location data",
                <<"The IP geolocation service returned invalid data. Please try a different provider.">>))
       ELSE LET locationData == [ lat |-> body.latitude, lon |-> body.longitude,
                                  accuracy |-> 5000, provider |-> "ip", isLive |-> FALSE ]
            IN Resolve(HandleLocationUpdate(wd, locationData), i)

\* fetch or response.json() threw
IpFetchFailure(w, i, raw) ==
    IpCatch([w EXCEPT !.calls[i].awaiting = FALSE], i, raw)

\* what fetch and response.json() may throw
FetchErrors == { RawError("TypeError", "Failed to fetch") }

\* ------------------------------------------------------------ credential store
\* a store that drops what it is given
SetStoredApiKeyLost(w, key) == w

SetStoredApiKey(w, key) == [w EXCEPT !.storedApiKey = key]

\* a store that keeps the removed credential
RemoveStoredApiKeyKept(w) == w

RemoveStoredApiKey(w) == [w EXCEPT !.storedApiKey = NoKey]

\* ------------------------------------------------------------ remote API provider
GoogleCleanup(w) == w

\* /^\d+$/.test(code), a code being the sequence of its characters
Digits == {"0", "1", "2", "3", "4", "5", "6", "7", "8", "9"}

\* the test without its anchors and class: any non-empty code passes
IsNumericNonEmpty(code) ==
    Len(code) > 0

IsNumeric(code) ==
    /\ Len(code) > 0
    /\ \A k \in 1..Len(code) : code[k] \in Digits

\* the methods check left out
NoMethodsSelectedSkipped(o) ==
    FALSE

\* !useWifi && !useCellular && !useIp
NoMethodsSelected(o) ==
    ~o.useWifi /\ ~o.useCellular /\ ~o.useIp

\* a catch block that hands on what it caught
GoogleCatchRaw(w, i, err) ==
    Reject(OnError(w, i, err), i, err)

\* catch block of useGoogleProvider.getLocation
GoogleCatch(w, i, err) ==
    LET e == IF err.name = "LocationError" THEN err
             ELSE LocationError(IF err.message # "" THEN err.message ELSE "Unknown error",
                    "Google Geolocation error",
                    <<"An unexpected error occurred. Please try a different provider.">>)
    IN Reject(OnError(w, i, e), i, e)

\* One invocation of getLocation up to its first await (the fetch), for call i.
\* answer: what window.prompt returns, should the invocation ask.
\* The closure's apiKey is the state of the render that made it (c.held): the
\* invocation the retry makes is of the same closure and reads the same value.
GoogleGetLocation(w, i, answer) ==
    LET c == w.calls[i]
        o == c.opts
        asks == c.held = NoKey
        \* lines 203-216
        w1 == IF asks
              THEN Log(w, EventOf(w, i, "prompt", answer, 0))
              ELSE w
        w2 == IF asks /\ answer # NoKey
              THEN Log(SetStoredApiKey([w1 EXCEPT !.apiKey = answer], answer),
                       EventOf(w, i, "store", answer, 0))
              ELSE w1
        currentApiKey == IF asks THEN answer ELSE c.held
        validCellular == o.useCellular /\ o.mcc # <<>> /\ o.mnc # <<>>
    IN IF asks /\ answer = NoKey
       THEN Reject(w1, i, LocationError("No API key provided", "API key required",
                <<"Please provide a valid Google Geolocation API key to use this provider.">>))
       ELSE IF NoMethodsSelected(o)
       THEN Reject(w2, i, LocationError("No methods selected", "No location methods selected",
                <<"Please select at least one location method (WiFi, Cellular, or IP)">>))
       ELSE IF validCellular /\ ~IsNumeric(o.mcc)
       THEN GoogleCatch(w2, i, LocationError("Invalid MCC", "Invalid Mobile Country Code",
                <<"Mobile Country Code must be numeric">>))
       ELSE IF validCellular /\ ~IsNumeric(o.mnc)
       THEN GoogleCatch(w2, i, LocationError("Invalid MNC", "Invalid Mobile Network Code",
                <<"Mobile Network Code must be numeric">>))
       ELSE IF o.useWifi /\ ~(o.wifiCount >= 0) /\ ~o.useIp /\ ~o.useCellular
       THEN GoogleCatch(w2, i, LocationError("Insufficient WiFi data", "WiFi location unavailable",
                <<"At least 2 WiFi access points are required for WiFi-based location. Please enable IP or Cellular methods.">>))
       ELSE [ Log(w2, EventOf(w, i, "request", currentApiKey, 0))
                EXCEPT !.calls[i].awaiting = TRUE,
                       !.calls[i].key = currentApiKey,
                       !.calls[i].nreq = @ + 1 ]

\* a classification without the rate-limit branch
GoogleFailureNoRateLimit(status, message) ==
    LET e == IF status = 403 \/ (status = 400 /\ Includes(message, "API key not valid"))
             THEN LocationError("Invalid API Key", "API Key Error",
                    <<"The provided API key is not valid. Please check your API key and try again.">>)
             ELSE IF status = 400
             THEN LocationError(IF message # "" THEN message ELSE "Bad Request", "Request Error",
                    <<"The request was invalid. ",
                      IF message # "" THEN message
                      ELSE "Please check your settings and try again.">>)
             ELSE LocationError(IF message # "" THEN message ELSE "Google Geolocation API error",
                    "API Error",
                    <<"Failed to get location using Google Geolocation API. ",
                      IF message # "" THEN message
                      ELSE "Please try again or use a different provider.">>)
    IN [e EXCEPT !.status = status]

\* the failure a non-ok response is classified as (lines 286-324)
GoogleFailure(status, message) ==
    LET e == IF status = 403 \/ (status = 400 /\ Includes(message, "API key not valid"))
             THEN LocationError("Invalid API Key", "API Key Error",
                    <<"The provided API key is not valid. Please check your API key and try again.">>)
             ELSE IF status = 429
             THEN LocationError("Rate limit exceeded", "Too many requests",
                    <<"You have exceeded the quota for API requests. Please wait a moment and try again.">>)
             ELSE IF status = 400
             THEN LocationError(IF message # "" THEN message ELSE "Bad Request", "Request Error",
                    <<"The request was invalid. ",
                      IF message # "" THEN message
                      ELSE "Please check your settings and try again.">>)
             ELSE LocationError(IF message # "" THEN message ELSE "Google Geolocation API error",
                    "API Error",
                    <<"Failed to get location using Google Geolocation API. ",
                      IF message # "" THEN message
                      ELSE "Please try again or use a different provider.">>)
    IN [e EXCEPT !.status = status]

InvalidKeyResponse(status, message) ==
    status = 403 \/ (status = 400 /\ Includes(message, "API key not valid"))

\* a fix of the geolocation API (data.location, data.accuracy)
GoogleFixes == { [lat |-> 51, lon |-> 0, accuracy |-> 1200] }

\* The request of call i answered with this status and body.  answer: what the
\* re-prompt returns; answer2: what the prompt of the retried invocation returns.
GoogleResponse(w, i, status, message, fix, answer, answer2) ==
    LET w1 == Log([w EXCEPT !.calls[i].awaiting = FALSE], EventOf(w, i, "response", message, status))
    IN IF status = 200
       THEN LET locationData == [ lat |-> fix.lat, lon |-> fix.lon, accuracy |-> fix.accuracy,
                                  provider |-> "google", isLive |-> FALSE ]
            IN Resolve(HandleLocationUpdate(w1, locationData), i)
       ELSE IF InvalidKeyResponse(status, message)
       THEN LET \* setApiKey(null); removeStoredApiKey(); window.prompt(...)
                w2 == Log(Log(RemoveStoredApiKey([w1 EXCEPT !.apiKey = NoKey]),
                              EventOf(w, i, "remove", w.storedApiKey, 0)),
                          EventOf(w, i, "reprompt", answer, 0))
            IN IF answer # NoKey
               THEN \* setApiKey(newKey); setStoredApiKey(newKey); return getLocation()
                    GoogleGetLocation(
                        Log(SetStoredApiKey([w2 EXCEPT !.apiKey = answer], answer),
                            EventOf(w, i, "store", answer, 0)),
                        i, answer2)
               ELSE GoogleCatch(w2, i, GoogleFailure(status, message))
       ELSE GoogleCatch(w1, i, GoogleFailure(status, message))

\* fetch or response.json() threw
GoogleFetchFailure(w, i, raw) ==
    GoogleCatch([w EXCEPT !.calls[i].awaiting = FALSE], i, raw)

\* ------------------------------------------------------------ controller handlers
\* providers[provider].getLocation().catch(handleError), by the closures of the
\* render with these options and this apiKey state
GetLocation(w, provider, opts, held, answer, supported) ==
    LET i == w.started + 1
        w0 == [w EXCEPT !.calls = i :> NewCall(i, provider, opts, held) @@ @,
                        !.started = i]
        w1 == Log(w0, EventOf(w0, i, "getLocation", provider, 0))
    IN CASE provider = "navigator" -> NavigatorGetLocation(w1, i, supported)
         [] provider = "google" -> GoogleGetLocation(w1, i, answer)
         [] OTHER -> IpGetLocation(w1, i)

CleanupProvider(w, provider) ==
    LET w1 == Log(w, Event("cleanup", provider, 0))
    IN CASE provider = "navigator" -> NavigatorCleanup(w1)
         [] provider = "google" -> GoogleCleanup(w1)
         [] OTHER -> IpCleanup(w1)

CleanupProviders(w) ==
    CleanupProvider(CleanupProvider(CleanupProvider(w, ProviderOrder[1]),
                                    ProviderOrder[2]), ProviderOrder[3])

\* a reset that clears the result and the failure and leaves loading as it is
ResetStateNotLoading(w) ==
    Log([w EXCEPT !.location = NoLocation, !.error = NoError], Event("reset", "", 0))

\* a reset that leaves the result where it is
ResetStateKeepsLocation(w) ==
    Log([w EXCEPT !.error = NoError, !.loading = TRUE], Event("reset", "", 0))

ResetState(w) ==
    Log([w EXCEPT !.location = NoLocation, !.error = NoError, !.loading = TRUE],
        Event("reset", "", 0))

SetCurrentProvider(w, provider) ==
    Log([w EXCEPT !.currentProvider = provider], Event("setProvider", provider, 0))

\* the acquisition started before the providers are cleaned up
HandleProviderChangeCleanupLast(w, provider, opts, held, answer, supported) ==
    LET w1 == Log(w, Event("switching", w.currentProvider, 0))
        w2 == ResetState(w1)
        w3 == SetCurrentProvider(w2, provider)
    IN CleanupProviders(GetLocation(w3, provider, opts, held, answer, supported))

\* selecting the provider that is active already does nothing
HandleProviderChangeSkipSame(w, provider, opts, held, answer, supported) ==
    IF provider = w.currentProvider
    THEN w
    ELSE LET w1 == CleanupProviders(Log(w, Event("switching", w.currentProvider, 0)))
             w2 == ResetState(w1)
             w3 == SetCurrentProvider(w2, provider)
         IN GetLocation(w3, provider, opts, held, answer, supported)

HandleProviderChange(w, provider, opts, held, answer, supported) ==
    LET w1 == CleanupProviders(Log(w, Event("switching", w.currentProvider, 0)))
        w2 == ResetState(w1)
        w3 == SetCurrentProvider(w2, provider)
    IN GetLocation(w3, provider, opts, held, answer, supported)

\* a start that always asks the device provider
StartLocationWatchDeviceOnly(w, opts, held, answer, supported) ==
    LET w1 == Log([w EXCEPT !.loading = TRUE, !.error = NoError], Event("start", "", 0))
    IN GetLocation(w1, "navigator", opts, held, answer, supported)

StartLocationWatch(w, opts, held, answer, supported) ==
    LET w1 == Log([w EXCEPT !.loading = TRUE, !.error = NoError], Event("start", "", 0))
    IN GetLocation(w1, w.currentProvider, opts, held, answer, supported)

RefreshLocation(w, opts, held, answer, supported) ==
    LET w1 == CleanupProviders(w)
        w2 == ResetState(w1)
    IN StartLocationWatch(w2, opts, held, answer, supported)

\* ------------------------------------------------------------ initial state
\* useState initial values of App (lines 91-112)
DefaultOptions ==
    [ liveTracking |-> TRUE, gpsTimeout |-> 10, useWifi |-> FALSE, useCellular |-> FALSE,
      useIp |-> TRUE, mcc |-> <<>>, mnc |-> <<>>, wifiCount |-> 0 ]

\* the state once App has mounted and the mount effect has started the first
\* acquisition on the device provider with the options mountOpts; opts: the
\* options the form holds by now
MountedWith(mountOpts, opts, key, supported, firstWatch) ==
    LET w0 == [ currentProvider |-> "navigator", loading |-> TRUE, error |-> NoError,
                location |-> NoLocation, toast |-> NoToast,
                apiKey |-> key, storedApiKey |-> key,
                watchIdRef |-> NoWatch, geoWatches |-> {}, nextWatchId |-> firstWatch,
                calls |-> <<>>, started |-> 0, microtasks |-> <<>>, opLog |-> <<>> ]
        w == GetLocation(w0, "navigator", mountOpts, key, NoKey, supported)
    IN /\ currentProvider = w.currentProvider
       /\ loading = w.loading
       /\ error = w.error
       /\ location = w.location
       /\ toast = w.toast
       /\ liveTracking = opts.liveTracking
       /\ gpsTimeout = opts.gpsTimeout
       /\ useWifi = opts.useWifi
       /\ useCellular = opts.useCellular
       /\ useIp = opts.useIp
       /\ networkInfo = [mcc |-> opts.mcc, mnc |-> opts.mnc]
       /\ wifiNetworks = opts.wifiCount
       /\ apiKey = w.apiKey
       /\ storedApiKey = w.storedApiKey
       /\ watchIdRef = w.watchIdRef
       /\ geoSupported = supported
       /\ geoWatches = w.geoWatches
       /\ nextWatchId = w.nextWatchId
       /\ calls = Collect(w.calls, w.geoWatches)
       /\ started = w.started
       /\ microtasks = w.microtasks
       /\ opLog = w.opLog

Mounted(opts, key, supported, firstWatch) ==
    MountedWith(opts, opts, key, supported, firstWatch)

Init ==
    \E key \in StoredKeys, supported \in BOOLEAN, firstWatch \in FirstWatchIds :
        Mounted(DefaultOptions, key, supported, firstWatch)

\* ------------------------------------------------------------ actions
Idle == microtasks = <<>>

CallIds == DOMAIN calls

SwitchProvider ==
    /\ Idle
    /\ started < MaxCalls
    /\ \E provider \in Providers :
       \E answer \in (IF provider = "google" /\ apiKey = NoKey THEN PromptAnswers ELSE {NoKey}) :
         Commit(HandleProviderChange(Log(World, Event("onChange", provider, 0)),
                                     provider, Options, apiKey, answer, geoSupported))
    /\ OptionsUnchanged

Refresh ==
    /\ Idle
    /\ started < MaxCalls
    /\ \E answer \in (IF currentProvider = "google" /\ apiKey = NoKey
                      THEN PromptAnswers ELSE {NoKey}) :
         Commit(RefreshLocation(Log(World, Event("onClick", "refresh", 0)),
                                Options, apiKey, answer, geoSupported))
    /\ OptionsUnchanged

PromiseReaction ==
    /\ ~Idle
    /\ LET m == Head(microtasks)
           w == Log([World EXCEPT !.microtasks = Tail(@)],
                    [op |-> "catch", call |-> m.call, by |-> m.by,
                     arg |-> m.err.message, status |-> m.err.status])
       IN Commit(HandleError(w, m.err))
    /\ OptionsUnchanged

DismissToast ==
    /\ Idle
    /\ toast # NoToast
    /\ Commit([Log(World, Event("onClose", "toast", 0)) EXCEPT !.toast = NoToast])
    /\ OptionsUnchanged

NavigatorPosition ==
    /\ Idle
    /\ \E i \in CallIds, fix \in NavigatorFixes :
         /\ NavigatorLive(calls[i], geoWatches)
         /\ Commit(HandlePosition(World, i, fix))
    /\ OptionsUnchanged

NavigatorPositionError ==
    /\ Idle
    /\ \E i \in CallIds, code \in PositionErrorCodes :
         /\ NavigatorLive(calls[i], geoWatches)
         /\ Commit(HandlePositionError(World, i, code))
    /\ OptionsUnchanged

IpAnswer ==
    /\ Idle
    /\ \E i \in CallIds, status \in IpStatuses :
         /\ calls[i].provider = "ip" /\ calls[i].awaiting
         /\ \E body \in (IF status = 200 THEN IpBodies
                         ELSE {[latitude |-> Absent, longitude |-> Absent]}) :
              Commit(IpResponse(World, i, status, body))
    /\ OptionsUnchanged

IpFetchFails ==
    /\ Idle
    /\ \E i \in CallIds, raw \in FetchErrors :
         /\ calls[i].provider = "ip" /\ calls[i].awaiting
         /\ Commit(IpFetchFailure(World, i, raw))
    /\ OptionsUnchanged

GoogleAnswer ==
    /\ Idle
    /\ \E i \in CallIds, status \in GoogleStatuses :
         /\ calls[i].provider = "google" /\ calls[i].awaiting
         /\ \E message \in (IF status = 400 THEN ServerMessages ELSE {""}) :
            \E answer \in (IF InvalidKeyResponse(status, message) THEN PromptAnswers ELSE {NoKey}) :
            \E answer2 \in (IF answer # NoKey /\ calls[i].held = NoKey THEN PromptAnswers ELSE {NoKey}) :
            \E fix \in GoogleFixes :
              \* the user has not typed in more credentials than the bound
              /\ answer # NoKey => calls[i].nreq < MaxRequests
              /\ Commit(GoogleResponse(World, i, status, message, fix, answer, answer2))
    /\ OptionsUnchanged

GoogleFetchFails ==
    /\ Idle
    /\ \E i \in CallIds, raw \in FetchErrors :
         /\ calls[i].provider = "google" /\ calls[i].awaiting
         /\ Commit(GoogleFetchFailure(World, i, raw))
    /\ OptionsUnchanged

Next ==
    \/ SwitchProvider
    \/ Refresh
    \/ PromiseReaction
    \/ DismissToast
    \/ NavigatorPosition
    \/ NavigatorPositionError
    \/ IpAnswer
    \/ IpFetchFails
    \/ GoogleAnswer
    \/ GoogleFetchFails

Spec == Init /\ [][Next]_vars

\* ------------------------------------------------------------ remote provider
\* The options the form can be left with while the first acquisition is still
\* loading (no option effect runs then): the cellular and IP flags and, with
\* cellular checked, the network codes.
RemoteOptions ==
    { [DefaultOptions EXCEPT !.useCellular = cell, !.useIp = ip, !.mcc = mcc, !.mnc = mnc] :
        cell \in BOOLEAN, ip \in BOOLEAN, mcc \in MccValues, mnc \in MncValues }

InitRemote ==
    \E opts \in RemoteOptions, key \in StoredKeys, firstWatch \in FirstWatchIds :
        /\ opts.useCellular \/ (opts.mcc = <<>> /\ opts.mnc = <<>>)
        /\ Mounted(opts, key, TRUE, firstWatch)

\* the device and the IP service stay silent
NextRemote ==
    \/ SwitchProvider
    \/ Refresh
    \/ PromiseReaction
    \/ GoogleAnswer
    \/ GoogleFetchFails

SpecRemote == InitRemote /\ [][NextRemote]_vars

\* ------------------------------------------------------------ option changes
\* timeouts the device form offers
GpsTimeouts == {10, 30}

\* an effect that does not look at which provider is active
OptionEffectAnyProvider(w, provider, opts, held, answer, supported) ==
    IF ~w.loading
    THEN GetLocation(Log(w, Event("effect", provider, 0)), provider, opts, held, answer, supported)
    ELSE w

\* An option effect (lines 321-326 for the remote API provider, 329-334 for the
\* device provider), run after the render that follows a change of one of its
\* dependencies: it starts an acquisition, by the closures of that render, when
\* its provider is active and the controller is not loading.
OptionEffect(w, provider, opts, held, answer, supported) ==
    IF w.currentProvider = provider /\ ~w.loading
    THEN GetLocation(Log(w, Event("effect", provider, 0)), provider, opts, held, answer, supported)
    ELSE w

\* the options after one change of the remote API form: a method checkbox
\* toggled
RemoteChanges(o) ==
    { [o EXCEPT !.useWifi = ~@], [o EXCEPT !.useCellular = ~@], [o EXCEPT !.useIp = ~@] }

\* the options after one change of the device form
DeviceChanges(o) ==
    { [o EXCEPT !.liveTracking = ~@] }
    \cup { [o EXCEPT !.gpsTimeout = t] : t \in GpsTimeouts \ {o.gpsTimeout} }

\* the form's onChange handlers of the provider whose options are shown (the
\* active one), and the effect that follows the render
ChangeOption(provider, changes) ==
    /\ ~loading => started < MaxCalls
    /\ \E opts \in changes :
       \E answer \in (IF provider = "google" /\ ~loading /\ apiKey = NoKey
                      THEN PromptAnswers ELSE {NoKey}) :
         /\ Commit(OptionEffect(Log(World, Event("setOption", provider, 0)),
                                provider, opts, apiKey, answer, geoSupported))
         /\ liveTracking' = opts.liveTracking
         /\ gpsTimeout' = opts.gpsTimeout
         /\ useWifi' = opts.useWifi
         /\ useCellular' = opts.useCellular
         /\ useIp' = opts.useIp
         /\ networkInfo' = [mcc |-> opts.mcc, mnc |-> opts.mnc]
    /\ UNCHANGED << wifiNetworks, geoSupported >>

ChangeRemoteOption ==
    /\ Idle
    /\ currentProvider = "google"
    /\ ChangeOption("google", RemoteChanges(Options))

ChangeDeviceOption ==
    /\ Idle
    /\ currentProvider = "navigator"
    /\ ChangeOption("navigator", DeviceChanges(Options))

\* the geolocation API accepts the credential it is sent
GoogleAnswerKeyValid ==
    /\ GoogleAnswer
    /\ \A k \in DOMAIN opLog' : opLog'[k].op # "reprompt"

\* the IP service stays silent
NextOptions ==
    \/ SwitchProvider
    \/ PromiseReaction
    \/ NavigatorPosition
    \/ NavigatorPositionError
    \/ GoogleAnswerKeyValid
    \/ ChangeRemoteOption
    \/ ChangeDeviceOption

SpecOptions == Init /\ [][NextOptions]_vars

\* ------------------------------------------------------------ options of another provider
\* The option setters (setLiveTracking, setGpsTimeout, setUseWifi, setUseCellular,
\* setUseIp) called for a provider that is not the active one, and the effect
\* that follows the render.  The form that calls the setters is a collaborator
\* of the controller; the form of this repository shows the active provider's
\* inputs only.
\* the changes made that way: the Wi-Fi method of the remote API provider,
\* live tracking of the device provider
InactiveChanges(provider, o) ==
    IF provider = "google"
    THEN { [o EXCEPT !.useWifi = ~@] }
    ELSE { [o EXCEPT !.liveTracking = ~@] }

ChangeInactiveOption ==
    /\ Idle
    /\ \E provider \in {"navigator", "google"} :
         /\ currentProvider # provider
         /\ ChangeOption(provider, InactiveChanges(provider, Options))

\* the device delivers readings; the remote API and the IP service stay silent
NextInactive ==
    \/ SwitchProvider
    \/ PromiseReaction
    \/ NavigatorPosition
    \/ ChangeInactiveOption

SpecInactive == Init /\ [][NextInactive]_vars

\* ------------------------------------------------------------ refused requests
\* statuses of a response that is not ok
ErrorStatuses == {400, 401, 403, 429, 500}

\* the geolocation API refuses the request of call i, with any of these
\* statuses and any of the error messages
GoogleRefusal ==
    /\ Idle
    /\ \E i \in CallIds, status \in ErrorStatuses, message \in ServerMessages :
         /\ calls[i].provider = "google" /\ calls[i].awaiting
         /\ \E answer \in (IF InvalidKeyResponse(status, message) THEN PromptAnswers ELSE {NoKey}) :
            \E answer2 \in (IF answer # NoKey /\ calls[i].held = NoKey THEN PromptAnswers ELSE {NoKey}) :
            \E fix \in GoogleFixes :
              /\ answer # NoKey => calls[i].nreq < MaxRequests
              /\ Commit(GoogleResponse(World, i, status, message, fix, answer, answer2))
    /\ OptionsUnchanged

\* the device and the IP service stay silent
NextRefused ==
    \/ SwitchProvider
    \/ Refresh
    \/ PromiseReaction
    \/ GoogleRefusal

SpecRefused == Init /\ [][NextRefused]_vars

\* ------------------------------------------------------------ delivery
\* a promise reaction, a callback of the platform's geolocation service, or the
\* completion of an HTTP request
Callback ==
    \/ PromiseReaction
    \/ NavigatorPosition
    \/ NavigatorPositionError
    \/ IpAnswer
    \/ GoogleAnswerKeyValid

\* The event loop does not stall: while reactions, readings or responses are
\* outstanding, one of them is delivered in the end.
Answered ==
    WF_vars(Callback)

\* the user selects providers; every request is answered by its server
NextAnswered ==
    \/ SwitchProvider
    \/ PromiseReaction
    \/ NavigatorPosition
    \/ NavigatorPositionError
    \/ IpAnswer
    \/ GoogleAnswerKeyValid

SpecAnswered == Init /\ [][NextAnswered]_vars /\ Answered

\* ------------------------------------------------------------ single reading
\* The form with live tracking unchecked while the first acquisition is still
\* loading: the refreshes and switches that follow request single readings.
InitSingle ==
    \E key \in StoredKeys, supported \in BOOLEAN, firstWatch \in FirstWatchIds :
        MountedWith(DefaultOptions, [DefaultOptions EXCEPT !.liveTracking = FALSE],
                    key, supported, firstWatch)

\* the remote API and the IP service stay silent
NextSingle ==
    \/ SwitchProvider
    \/ Refresh
    \/ PromiseReaction
    \/ DismissToast
    \/ NavigatorPosition
    \/ NavigatorPositionError

SpecSingle == InitSingle /\ [][NextSingle]_vars

\* ------------------------------------------------------------ watch identifiers
\* The first watch identifier of a platform that numbers its watches from 0
\* (watchPosition is typed to return a number; a test double counts from 0)
ZeroBasedWatchIds == {0}

InitZeroBased ==
    \E key \in StoredKeys, supported \in BOOLEAN, firstWatch \in ZeroBasedWatchIds :
        Mounted(DefaultOptions, key, supported, firstWatch)

SpecZeroBased == InitZeroBased /\ [][NextSingle]_vars

\* ------------------------------------------------------------ derived state
\* a status that does not look at loading
IsLiveActiveWhileLoading ==
    currentProvider = "navigator" /\ liveTracking /\ error = NoError

\* isLiveActive of the render of the current state (error null: NoError)
IsLiveActive ==
    currentProvider = "navigator" /\ liveTracking /\ error = NoError /\ ~loading

\* statusMessage of the same render
StatusMessage ==
    IF error # NoError THEN "Tracking inactive"
    ELSE IF loading THEN "Getting location..."
    ELSE IF IsLiveActive THEN "Live tracking active"
    ELSE "Using provider"

\* ============================================================ properties
\* positions of the log of the last task
Ops == DOMAIN opLog

Did(op) == \E k \in Ops : opLog[k].op = op

\* the last task delivered a location update of a provider that is not active
StaleUpdateDelivered ==
    \E k \in Ops : opLog[k].op = "update" /\ opLog[k].arg # currentProvider

\* the last task handed a failure of an acquisition of a provider that is not
\* active to the controller (through onError or through the rejected promise)
StaleFailureDelivered ==
    \E k \in Ops : opLog[k].op \in {"onError", "catch"} /\ opLog[k].by # currentProvider

\* an entry that is no call of the platform's clearWatch
NotClearWatch(e) == e.op # "clearWatch"

\* the last task is switchProvider(p)
SwitchedTo(p) ==
    /\ Len(opLog) >= 1
    /\ opLog[1] = Event("onChange", p, 0)

\* C1: a location update tagged with a provider other than the active one is
\* discarded: the task that delivers it leaves isLoading, currentFailure and
\* currentResult as they were.
C1_StaleUpdateDiscarded ==
    [][ StaleUpdateDelivered'
           => (loading' = loading /\ error' = error /\ location' = location) ]_vars

\* a result of an abandoned acquisition arrives while the new provider is loading
C1_Witness ==
    /\ StaleUpdateDelivered
    /\ started >= 2
    /\ loading
    /\ location = NoLocation

\* C2: a late callback of an abandoned provider, a result or a failure, changes
\* none of isLoading, currentFailure, currentResult and the notification.
C2_StaleCallbackInert ==
    [][ (StaleUpdateDelivered' \/ StaleFailureDelivered')
           => (loading' = loading /\ error' = error /\ location' = location
               /\ toast' = toast) ]_vars

\* C3: switchProvider(p) cleans up every provider (device, remote API, IP), then
\* resets result, failure and loading, then makes p active, then starts exactly
\* one acquisition, on p; no other acquisition is started, and an acquisition of
\* the device provider started by it still has its watch afterwards (the
\* cleanup came first).
C3_SwitchOrder ==
    [][ \A p \in Providers :
          SwitchedTo(p)' =>
            LET steps == SelectSeq(opLog', NotClearWatch)
            IN
            /\ Len(steps) >= 8
            /\ steps[2] = Event("switching", currentProvider, 0)
            /\ \A k \in 1..3 : steps[2 + k] = Event("cleanup", ProviderOrder[k], 0)
            /\ steps[6] = Event("reset", "", 0)
            /\ steps[7] = Event("setProvider", p, 0)
            /\ steps[8] = [op |-> "getLocation", call |-> started + 1, by |-> p,
                           arg |-> p, status |-> 0]
            /\ \A k \in 9..Len(steps) :
                 steps[k].op \notin {"cleanup", "reset", "setProvider", "getLocation"}
            /\ \A k, r \in DOMAIN opLog' :
                 (opLog'[k].op = "clearWatch" /\ opLog'[r].op = "getLocation") => k < r
            /\ started' = started + 1
            /\ currentProvider' = p
            /\ (p = "navigator" /\ geoSupported)
                 => /\ location' = NoLocation
                    /\ started' \in DOMAIN calls'
                    /\ calls'[started'].watch = watchIdRef'
                    /\ watchIdRef' \in geoWatches' ]_vars

\* switchProvider from another provider to the device provider has run
C3_Witness ==
    /\ SwitchedTo("navigator")
    /\ Len(SelectSeq(opLog, NotClearWatch)) >= 8
    /\ opLog[2].op = "switching" /\ opLog[2].arg # "navigator"
    /\ watchIdRef \in geoWatches

\* C4: switchProvider with the id that is active already still resets the state
\* (result empty, and loading set and failure empty unless the new acquisition
\* has failed at once) and starts exactly one acquisition, on that provider.
C4_SameProviderRefreshes ==
    [][ SwitchedTo(currentProvider)' /\ currentProvider' = currentProvider =>
            /\ Did("reset")'
            /\ Cardinality({k \in DOMAIN opLog' : opLog'[k].op = "getLocation"}) = 1
            /\ \A k \in DOMAIN opLog' :
                 opLog'[k].op = "getLocation" => opLog'[k].arg = currentProvider
            /\ started' = started + 1
            /\ location' = NoLocation
            /\ ~Did("onError")' => (loading' /\ error' = NoError) ]_vars

\* switchProvider with the active id has run, as the third acquisition
C4_Witness ==
    /\ SwitchedTo(currentProvider)
    /\ Len(opLog) >= 8
    /\ opLog[2] = Event("switching", currentProvider, 0)
    /\ loading
    /\ location = NoLocation
    /\ started = 3

\* C5: one getLocation call of the remote API provider sends at most two
\* requests (the first and one retry), however many credentials are supplied.
C5_AtMostOneRetry ==
    \A i \in DOMAIN calls :
        calls[i].provider = "google" => calls[i].nreq <= 2

\* C6: after an invalid-key response and a re-prompt that returns a credential,
\* the request that follows carries that credential, and no further credential
\* prompt comes before it.
C6_RetryUsesNewCredential ==
    \A j \in Ops :
        (opLog[j].op = "reprompt" /\ opLog[j].arg # NoKey) =>
            \A r \in Ops :
                r > j =>
                    /\ opLog[r].op # "prompt"
                    /\ opLog[r].op = "request" => opLog[r].arg = opLog[j].arg

\* C7: a response with status 403 removes the stored credential and re-prompts;
\* if the re-prompt yields nothing, the call is rejected with the invalid-API-key
\* failure carrying status 403, the credential store and the held credential
\* are empty, no request follows, and nothing of the call is outstanding.
C7_ForbiddenClearsCredential ==
    \A k \in Ops :
        (opLog[k].op = "response" /\ opLog[k].status = 403) =>
            /\ k + 2 \in Ops
            /\ opLog[k + 1].op = "remove"
            /\ opLog[k + 2].op = "reprompt"
            /\ opLog[k + 2].arg = NoKey =>
                 /\ storedApiKey = NoKey
                 /\ apiKey = NoKey
                 /\ \E r \in Ops :
                      /\ r > k + 2
                      /\ opLog[r].op = "reject"
                      /\ opLog[r].call = opLog[k].call
                      /\ opLog[r].arg = "Invalid API Key"
                      /\ opLog[r].status = 403
                 /\ \A r \in Ops : r > k => opLog[r].op \notin {"request", "store", "prompt"}
                 /\ opLog[k].call \notin DOMAIN calls

\* a stored credential was refused with 403 and the re-prompt was dismissed
C7_Witness ==
    \E k \in Ops :
        /\ opLog[k].op = "response" /\ opLog[k].status = 403
        /\ k + 2 \in Ops
        /\ opLog[k + 1].op = "remove" /\ opLog[k + 1].arg = "K1"
        /\ opLog[k + 2].op = "reprompt" /\ opLog[k + 2].arg = NoKey
        /\ storedApiKey = NoKey

\* a code with a character that is no digit
NonDigit(code) ==
    \E k \in DOMAIN code : code[k] \notin {"0", "1", "2", "3", "4", "5", "6", "7", "8", "9"}

\* the last task started an acquisition of the remote API provider
StartedGoogle ==
    \E k \in Ops : opLog[k].op = "getLocation" /\ opLog[k].arg = "google"

\* that acquisition had a credential: the held one, or one the prompt returned
CredentialAvailable ==
    \A k \in Ops : opLog[k].op = "prompt" => opLog[k].arg # NoKey

RejectedWith(message) ==
    \E k \in Ops : opLog[k].op = "reject" /\ opLog[k].by = "google" /\ opLog[k].arg = message

\* C8 (as stated): with cellular enabled, a code that is not all digits, whatever
\* the other code, lets no acquisition with a credential send a request.
C8_NonDigitCodeNeverRequests ==
    (StartedGoogle /\ CredentialAvailable /\ useCellular
        /\ (NonDigit(networkInfo.mcc) \/ NonDigit(networkInfo.mnc)))
      => ~Did("request")

\* C8 (amended): with cellular enabled, a credential available and both codes
\* non-empty, a non-digit MCC fails with "Invalid MCC", otherwise a non-digit MNC
\* fails with "Invalid MNC"; the failure is reported and no request is sent.
C8_BothCodesValidated ==
    (StartedGoogle /\ CredentialAvailable /\ useCellular
        /\ networkInfo.mcc # <<>> /\ networkInfo.mnc # <<>>
        /\ (NonDigit(networkInfo.mcc) \/ NonDigit(networkInfo.mnc)))
      => /\ RejectedWith(IF NonDigit(networkInfo.mcc) THEN "Invalid MCC" ELSE "Invalid MNC")
         /\ Did("onError")
         /\ ~Did("request")

\* a credential from the prompt, digits for the MCC and a letter for the MNC
C8_Witness ==
    /\ StartedGoogle
    /\ useCellular
    /\ ~NonDigit(networkInfo.mcc) /\ networkInfo.mcc # <<>>
    /\ NonDigit(networkInfo.mnc)
    /\ \E k \in Ops : opLog[k].op = "prompt" /\ opLog[k].arg # NoKey
    /\ RejectedWith("Invalid MNC")

\* C9 (as stated): with no credential and no method selected, getLocation fails
\* with "No methods selected" without prompting.
C9_MethodsCheckedBeforePrompt ==
    [][ (apiKey = NoKey /\ StartedGoogle' /\ ~useWifi /\ ~useCellular /\ ~useIp)
          => (~Did("prompt")' /\ RejectedWith("No methods selected")') ]_vars

\* C9 (amended): with no method selected, a provider that holds no credential
\* prompts first: with no answer it fails with "No API key provided", with an
\* answer it stores the answer and then fails with "No methods selected"; a
\* provider that holds a credential fails with "No methods selected" without a
\* prompt.  No request is sent in any of these cases.
C9_PromptBeforeMethodsCheck ==
    [][ (StartedGoogle' /\ ~useWifi /\ ~useCellular /\ ~useIp) =>
          \E g \in DOMAIN opLog' :
            /\ opLog'[g].op = "getLocation"
            /\ ~Did("request")'
            /\ IF apiKey = NoKey
               THEN /\ g + 2 <= Len(opLog')
                    /\ opLog'[g + 1].op = "prompt"
                    /\ IF opLog'[g + 1].arg = NoKey
                       THEN /\ opLog'[g + 2].op = "reject"
                            /\ opLog'[g + 2].arg = "No API key provided"
                            /\ storedApiKey' = storedApiKey
                       ELSE /\ g + 3 <= Len(opLog')
                            /\ opLog'[g + 2].op = "store"
                            /\ storedApiKey' = opLog'[g + 1].arg
                            /\ opLog'[g + 3].op = "reject"
                            /\ opLog'[g + 3].arg = "No methods selected"
               ELSE /\ g + 1 <= Len(opLog')
                    /\ opLog'[g + 1].op = "reject"
                    /\ opLog'[g + 1].arg = "No methods selected" ]_vars

\* no method selected, the prompt answered, then the methods failure
C9_Witness ==
    /\ StartedGoogle
    /\ ~useWifi /\ ~useCellular /\ ~useIp
    /\ \E k \in Ops :
         /\ k + 2 \in Ops
         /\ opLog[k].op = "prompt" /\ opLog[k].arg # NoKey
         /\ opLog[k + 1].op = "store"
         /\ opLog[k + 2].op = "reject" /\ opLog[k + 2].arg = "No methods selected"
    /\ storedApiKey # NoKey

\* C10: a getLocation of the remote API provider that holds no credential
\* prompts, once, before anything else; with no answer it fails with "No API key
\* provided", sends no request and leaves the credential store alone; with an
\* answer it stores the answer, and the request that follows carries it.
C10_PromptWhenNoCredential ==
    [][ (apiKey = NoKey /\ StartedGoogle') =>
          \E g \in DOMAIN opLog' :
            /\ opLog'[g].op = "getLocation"
            /\ g + 2 <= Len(opLog')
            /\ opLog'[g + 1].op = "prompt"
            /\ Cardinality({k \in DOMAIN opLog' : opLog'[k].op = "prompt"}) = 1
            /\ IF opLog'[g + 1].arg = NoKey
               THEN /\ opLog'[g + 2].op = "reject"
                    /\ opLog'[g + 2].arg = "No API key provided"
                    /\ ~Did("request")'
                    /\ ~Did("store")'
                    /\ storedApiKey' = storedApiKey
               ELSE /\ opLog'[g + 2].op = "store"
                    /\ opLog'[g + 2].arg = opLog'[g + 1].arg
                    /\ storedApiKey' = opLog'[g + 1].arg
                    /\ \A r \in DOMAIN opLog' :
                         opLog'[r].op = "request" => opLog'[r].arg = opLog'[g + 1].arg ]_vars

\* the prompt was answered, the answer stored and sent with the request
C10_Witness ==
    \E k \in Ops :
        /\ k + 2 \in Ops
        /\ opLog[k].op = "prompt" /\ opLog[k].arg = "K2"
        /\ opLog[k + 1].op = "store"
        /\ opLog[k + 2].op = "request" /\ opLog[k + 2].arg = "K2"
        /\ storedApiKey = "K2"

\* C11: with Wi-Fi the only enabled method and an empty access-point list, an
\* acquisition of the remote API provider that has a credential fails with the
\* insufficient-data failure and sends no request.
C11_WifiOnlyEmptyListFails ==
    (StartedGoogle /\ CredentialAvailable
        /\ useWifi /\ ~useIp /\ ~useCellular /\ wifiNetworks = 0)
      => /\ RejectedWith("Insufficient WiFi data")
         /\ ~Did("request")

\* C12: for every successful response of the IP service, getLocation resolves
\* with the body's coordinates, accuracy 5000, isLive false and provider "ip"
\* when the body has both latitude and longitude (0 included), and fails with
\* "Invalid location data" exactly when one of them is missing.
C12_IpBodyDecides ==
    \A k \in Ops :
        (opLog[k].op = "latitude" /\ k + 1 \in Ops /\ opLog[k + 1].op = "longitude") =>
            LET lat == opLog[k].status
                lon == opLog[k + 1].status
                failed == \E r \in Ops : /\ opLog[r].op = "reject"
                                         /\ opLog[r].call = opLog[k].call
                                         /\ opLog[r].arg = "Invalid location data"
                resolved == \E r \in Ops : /\ opLog[r].op = "resolve"
                                           /\ opLog[r].call = opLog[k].call
            IN IF lat # Absent /\ lon # Absent
               THEN /\ resolved
                    /\ ~failed
                    /\ currentProvider = "ip"
                         => location = [ lat |-> lat, lon |-> lon, accuracy |-> 5000,
                                         provider |-> "ip", isLive |-> FALSE ]
               ELSE failed /\ ~resolved

\* the last task started an acquisition of the device provider
StartedNavigator ==
    \E k \in Ops : opLog[k].op = "getLocation" /\ opLog[k].arg = "navigator"

\* C13: a device acquisition with live tracking registers one watch; a reading
\* of the watch always invokes the update callback (which sets the result when
\* the device provider is active), settles the promise only if it is still
\* pending, leaves a settled promise as it is, and starts no acquisition and no
\* watch.
C13_LiveWatchSettlesOnce ==
    [][ /\ (StartedNavigator' /\ liveTracking /\ geoSupported)
            => /\ Cardinality(geoWatches' \ geoWatches) = 1
               /\ watchIdRef' \in geoWatches' \ geoWatches
               /\ calls'[started'].watch = watchIdRef'
               /\ calls'[started'].settled = "pending"
        /\ \A k \in DOMAIN opLog' :
             (opLog'[k].op = "position" /\ calls[opLog'[k].call].opts.liveTracking) =>
               LET i == opLog'[k].call
                   settles == \E r \in DOMAIN opLog' :
                                 /\ opLog'[r].op \in {"resolve", "reject"}
                                 /\ opLog'[r].call = i
               IN /\ calls[i].watch \in geoWatches
                  /\ k + 1 \in DOMAIN opLog'
                  /\ opLog'[k + 1] = Event("update", "navigator", 0)
                  /\ currentProvider = "navigator"
                       => (~loading' /\ location' # NoLocation /\ location'.isLive)
                  /\ started' = started
                  /\ geoWatches' = geoWatches
                  /\ i \in DOMAIN calls'
                  /\ IF calls[i].settled = "pending"
                     THEN settles /\ calls'[i].settled = "resolved"
                     ELSE ~settles /\ calls'[i].settled = calls[i].settled ]_vars

\* a later reading of a watch whose promise the first reading has resolved
C13_Witness ==
    \E k \in Ops :
        /\ opLog[k].op = "position"
        /\ opLog[k].call \in DOMAIN calls
        /\ calls[opLog[k].call].opts.liveTracking
        /\ calls[opLog[k].call].settled = "resolved"
        /\ ~Did("resolve")
        /\ location # NoLocation

\* C14: a device acquisition without live tracking requests a single reading
\* and registers no watch; the reading or the failure that answers it settles
\* the pending promise, a reading invokes the update callback once, and nothing
\* of the acquisition is outstanding afterwards (no further callback can come).
C14_SingleReadingOnce ==
    [][ /\ (StartedNavigator' /\ ~liveTracking /\ geoSupported)
            => /\ geoWatches' \subseteq geoWatches
               /\ watchIdRef' \notin geoWatches'
               /\ calls'[started'].watch = NoWatch
               /\ calls'[started'].awaiting
               /\ calls'[started'].settled = "pending"
        /\ \A k \in DOMAIN opLog' :
             (/\ opLog'[k].op \in {"position", "reject"}
              /\ opLog'[k].by = "navigator"
              /\ opLog'[k].call \in DOMAIN calls
              /\ ~calls[opLog'[k].call].opts.liveTracking) =>
               LET i == opLog'[k].call
               IN /\ calls[i].settled = "pending"
                  /\ calls[i].awaiting
                  /\ i \notin DOMAIN calls'
                  /\ Cardinality({r \in DOMAIN opLog' :
                                    opLog'[r].op \in {"resolve", "reject"}
                                    /\ opLog'[r].call = i}) = 1
                  /\ Cardinality({r \in DOMAIN opLog' : opLog'[r].op = "update"})
                       = IF opLog'[k].op = "position" THEN 1 ELSE 0 ]_vars

\* the single reading has arrived: the result is not live, no watch exists and
\* the acquisition is gone
C14_Witness ==
    /\ ~liveTracking
    /\ \E k \in Ops : opLog[k].op = "position" /\ opLog[k].call \notin DOMAIN calls
    /\ Did("resolve")
    /\ location # NoLocation /\ ~location.isLive
    /\ geoWatches = {}

\* the calls of clearWatch a log records
Releases(log) ==
    Cardinality({k \in DOMAIN log : log[k].op = "clearWatch"})

\* a state of the handlers without its log
Quiet(w) == [w EXCEPT !.opLog = <<>>]

\* C15: for each provider, cleanup() called twice in succession on any state
\* the program reaches: the first call releases the registered device watch
\* (once) and nothing else, a call with nothing active changes nothing, and the
\* second call releases nothing and leaves the state as the first left it.
C15_CleanupTwice ==
    \A p \in Providers :
        LET w1 == CleanupProvider(World, p)
            w2 == CleanupProvider(w1, p)
        IN /\ Releases(w1.opLog) <= 1
           /\ (p = "navigator" /\ watchIdRef \in geoWatches)
                => /\ Releases(w1.opLog) = 1
                   /\ w1.geoWatches = geoWatches \ {watchIdRef}
                   /\ w1.watchIdRef = NoWatch
           /\ (p # "navigator" \/ watchIdRef = NoWatch)
                => /\ Releases(w1.opLog) = 0
                   /\ Quiet(w1) = Quiet(World)
           /\ w2.opLog = Append(w1.opLog, Event("cleanup", p, 0))
           /\ Quiet(w2) = Quiet(w1)

\* a refresh has released the watch of the device provider and registered a new
\* one, which the two calls are applied to
C15_Witness ==
    /\ Did("clearWatch")
    /\ StartedNavigator
    /\ watchIdRef \in geoWatches
    /\ Releases(CleanupProvider(World, "navigator").opLog) = 1

\* C16: cleanup() of the device provider clears the watch the provider has
\* recorded, whatever its identifier: after a task that has called it, that
\* watch is not registered any more, and the provider records no watch unless
\* the task has started a new one.
C16_CleanupClearsAnyWatch ==
    [][ (Did("cleanup")' /\ watchIdRef # NoWatch)
          => /\ watchIdRef \notin geoWatches'
             /\ ~StartedNavigator' => watchIdRef' = NoWatch ]_vars

\* C17: whenever the controller is not loading, exactly one of the result and
\* the failure is present.
C17_ResultXorFailure ==
    ~loading => ((location # NoLocation) # (error # NoError))

\* C18: when every acquisition is answered in the end, a loading controller
\* eventually stops loading (the switches and refreshes of a run are finitely
\* many), whatever callbacks of abandoned acquisitions arrive in between.
C18_LoadingEnds ==
    loading ~> ~loading

\* the active provider's acquisition has failed and loading is cleared
C18_Witness ==
    /\ ~loading
    /\ error # NoError
    /\ \E k \in Ops : opLog[k].op = "catch" /\ opLog[k].by = currentProvider
    /\ started = MaxCalls

\* the acquisitions of provider p whose promise is pending and which can still
\* be answered
InFlight(p) ==
    {i \in DOMAIN calls : calls[i].provider = p /\ calls[i].settled = "pending"}

\* C19: at every moment each provider has at most one acquisition in flight
\* (started and not settled).
C19_OneInFlightPerProvider ==
    \A p \in Providers : Cardinality(InFlight(p)) <= 1

\* the last task changed an option of the provider that was active
OptionChanged ==
    \E k \in Ops : opLog[k].op = "setOption"

\* C20: a change to an option of the active provider (remote API: methods and
\* network fields; device: live tracking and timeout) while the controller is
\* not loading begins a new acquisition on the active provider and, unless that
\* acquisition has failed at once, leaves loading set and the failure cleared;
\* while the controller is loading the change starts no acquisition.
C20_OptionChangeRefreshes ==
    [][ OptionChanged' =>
          IF loading
          THEN started' = started
          ELSE /\ started' = started + 1
               /\ \E k \in DOMAIN opLog' :
                    opLog'[k].op = "getLocation" /\ opLog'[k].arg = currentProvider
               /\ (~Did("reject")' /\ ~Did("onError")')
                    => (loading' /\ error' = NoError) ]_vars

\* the last task changed an option of a provider that was not active
InactiveOptionChanged ==
    \E k \in Ops : opLog[k].op = "setOption" /\ opLog[k].arg # currentProvider

\* C21: a change to an option of a provider that is not active starts no
\* acquisition on any provider and leaves isLoading, currentResult,
\* currentFailure and activeProviderId as they were; the acquisition that a
\* later switch starts is made with the option values the form holds by then.
C21_InactiveOptionLazy ==
    [][ /\ InactiveOptionChanged'
            => /\ started' = started
               /\ calls' = calls
               /\ ~Did("getLocation")'
               /\ geoWatches' = geoWatches
               /\ loading' = loading
               /\ location' = location
               /\ error' = error
               /\ currentProvider' = currentProvider
        /\ \A p \in Providers :
             (SwitchedTo(p)' /\ started' \in DOMAIN calls')
               => /\ calls'[started'].provider = p
                  /\ calls'[started'].opts = Options' ]_vars

\* Wi-Fi was checked and live tracking unchecked while another provider was
\* active; the acquisition of the switch to the remote API provider has them
C21_Witness ==
    /\ SwitchedTo("google")
    /\ opLog[2].arg # "google"
    /\ started \in DOMAIN calls
    /\ calls[started].opts.useWifi /\ ~calls[started].opts.liveTracking
    /\ calls[started].awaiting

\* C22: in every reachable state the derived live-active status, and with it
\* the "Live tracking active" status text, is set exactly when the device
\* provider is active, live tracking is enabled, there is no current failure
\* and the controller is not loading.
C22_LiveActiveDerived ==
    /\ IsLiveActive <=> ( /\ currentProvider = "navigator"
                          /\ liveTracking
                          /\ error = NoError
                          /\ ~loading )
    /\ (StatusMessage = "Live tracking active") <=> IsLiveActive
    /\ loading => ~IsLiveActive
    /\ error # NoError => ~IsLiveActive

\* the device provider was selected again and a reading of its watch has arrived
C22_Witness ==
    /\ IsLiveActive
    /\ started >= 2
    /\ location.provider = "navigator"
    /\ Did("position")

\* how often the controller's failure handler runs for acquisition i: its runs
\* in the last task (through onError, or as the reaction to the rejected
\* promise) and its runs that are queued
HandlerRuns(i) ==
    Cardinality({k \in Ops : opLog[k].op \in {"onError", "catch"} /\ opLog[k].call = i})
    + Cardinality({k \in DOMAIN microtasks : microtasks[k].call = i})

\* C23: for one failed getLocation call, of any provider, the controller's
\* failure handler runs once, raising one notification: a failure that was
\* handed to the handler is not queued for it again.
C23_FailureSurfacedOnce ==
    \A i \in 1..started : HandlerRuns(i) <= 1

\* a LocationError with its user summary and user detail
Structured(err) ==
    /\ err.name = "LocationError"
    /\ err.userMessage # ""
    /\ err.userDetails # <<>>

\* what a fetch, a response.json() or other code of a try block may throw
ThrownErrors ==
    FetchErrors \cup { RawError("SyntaxError", "Unexpected token < in JSON"),
                       RawError("Error", "") }

\* the failures the handler w has queued for the controller are structured, and
\* each carries a technical message
AllStructured(w) ==
    \A k \in DOMAIN w.microtasks :
        Structured(w.microtasks[k].err) /\ w.microtasks[k].err.message # ""

\* C24: every failure a provider's getLocation rejects with, and every error a
\* provider passes to the controller's error callback, is a LocationError with
\* a technical message, a user summary and a user detail: those of the last
\* task, and those any outstanding request would produce whatever its fetch
\* throws.
C24_NoRawError ==
    /\ AllStructured(World)
    /\ \A k \in Ops :
         opLog[k].op \in {"onError", "reject"} =>
            \E m \in DOMAIN microtasks :
                /\ microtasks[m].call = opLog[k].call
                /\ microtasks[m].err.message = opLog[k].arg
                /\ microtasks[m].err.status = opLog[k].status
    /\ \A i \in DOMAIN calls, raw \in ThrownErrors :
         /\ (calls[i].provider = "ip" /\ calls[i].awaiting)
              => AllStructured(IpFetchFailure(World, i, raw))
         /\ (calls[i].provider = "google" /\ calls[i].awaiting)
              => AllStructured(GoogleFetchFailure(World, i, raw))
         /\ \A code \in 1..4 :
              NavigatorLive(calls[i], geoWatches)
                => AllStructured(HandlePositionError(World, i, code))

\* a failed fetch of the remote API provider reached the controller wrapped
C24_Witness ==
    /\ Did("onError")
    /\ \E m \in DOMAIN microtasks :
         /\ microtasks[m].by = "google"
         /\ microtasks[m].err.message = "Failed to fetch"
         /\ microtasks[m].err.userMessage = "Google Geolocation error"

\* C25: a response of the geolocation API that is not ok and is not followed by
\* a retry rejects the call with a failure classified by status: 403, or 400
\* with the "API key not valid" message, the invalid-API-key failure; 429 the
\* rate-limit failure; any other 400 the request-error failure with the
\* server's message in its detail; every other status the API-error failure
\* with the server's message in its detail; the failure carries the status.
C25_StatusClassified ==
    \A k \in Ops :
        (/\ opLog[k].op = "response"
         /\ opLog[k].status # 200
         /\ \A r \in Ops : r > k => opLog[r].op # "store") =>
            LET s == opLog[k].status
                m == opLog[k].arg
            IN \E q \in DOMAIN microtasks :
                 LET e == microtasks[q].err
                 IN /\ microtasks[q].call = opLog[k].call
                    /\ e.name = "LocationError"
                    /\ e.status = s
                    /\ IF s = 403 \/ (s = 400 /\ m = KeyNotValidMessage)
                       THEN e.message = "Invalid API Key" /\ e.userMessage = "API Key Error"
                       ELSE IF s = 429
                       THEN e.message = "Rate limit exceeded" /\ e.userMessage = "Too many requests"
                       ELSE IF s = 400
                       THEN /\ e.userMessage = "Request Error"
                            /\ e.message = (IF m = "" THEN "Bad Request" ELSE m)
                            /\ e.userDetails[1] = "The request was invalid. "
                            /\ m # "" => e.userDetails[2] = m
                       ELSE /\ e.userMessage = "API Error"
                            /\ e.message = (IF m = "" THEN "Google Geolocation API error" ELSE m)
                            /\ m # "" => e.userDetails[2] = m

\* a 429 response carrying a message was classified as the rate-limit failure
C25_Witness ==
    /\ \E k \in Ops : /\ opLog[k].op = "response"
                       /\ opLog[k].status = 429
                       /\ opLog[k].arg = KeyNotValidMessage
    /\ \E q \in DOMAIN microtasks :
         /\ microtasks[q].err.userMessage = "Too many requests"
         /\ microtasks[q].err.status = 429

\* failures of every shape the handler may be given: structured ones (one of
\* them with a platform code as well), errors with a numeric code, with and
\* without a message, errors with one of the two user fields, plain errors
Failures ==
    { LocationError("Rate limit exceeded", "Too many requests", <<"You have exceeded the quota.">>),
      [LocationError("denied", "Location access denied", <<"Please enable location services.">>)
          EXCEPT !.code = 1] }
    \cup { [RawError("GeolocationPositionError", m) EXCEPT !.code = c] :
              m \in {"", "boom"}, c \in {0, 1, 2, 3, 4} }
    \cup { [RawError("Error", "half") EXCEPT !.userMessage = "summary only"] }
    \cup { RawError("Error", m) : m \in {"", "boom"} }

\* the handler, given err, leaves the controller not loading, with the failure
\* and the notification of the first of these that applies: the structured
\* fields; the lookup of the code (when coded); the generic text
ProjectedAs(err, coded) ==
    LET w == HandleError(World, err)
        t == ToString(gpsTimeout)
        named(x, generic) == IF x = "" THEN generic ELSE x
    IN /\ ~w.loading
       /\ w.toast.type = "error"
       /\ IF err.userMessage # "" /\ err.userDetails # <<>>
          THEN /\ w.error = [message |-> err.userMessage, details |-> err.userDetails]
               /\ w.toast.message = <<err.userMessage>>
          ELSE IF coded
          THEN CASE err.code = 1 ->
                      /\ w.error.message = "Location access denied"
                      /\ w.toast.message = <<"Location access denied. Please enable location services in your browser settings.">>
                 [] err.code = 2 ->
                      /\ w.error.message = "Location unavailable"
                      /\ w.toast.message = <<"Unable to determine your location. Try moving to a location with better GPS signal.">>
                 [] err.code = 3 ->
                      /\ w.error.message = "Location request timeout"
                      /\ w.error.details = <<"Request timed out after", t, "seconds.">>
                      /\ w.toast.message = <<"Location request timed out after", t,
                                             "seconds. Try increasing the timeout.">>
                 [] OTHER ->
                      /\ w.error.message = named(err.message, "Unknown geolocation error occurred")
                      /\ w.toast.message = <<"Location error occurred. Try a different provider.">>
          ELSE /\ w.error.message = named(err.message, "Unknown error occurred")
               /\ w.error.details = <<"Please try again or use a different provider">>
               /\ w.toast.message = <<"An error occurred while getting your location.">>

Refreshed ==
    /\ Len(opLog) >= 1
    /\ opLog[1] = Event("onClick", "refresh", 0)

\* C27: start/refresh starts exactly one acquisition, on the active provider;
\* it sets loading and clears the failure before it starts the acquisition, so
\* before the acquisition can settle (loading stays set and the failure empty
\* unless the acquisition has failed at once); the active provider stays.
C27_RefreshStartsOne ==
    [][ Refreshed' =>
          /\ Cardinality({k \in DOMAIN opLog' : opLog'[k].op = "getLocation"}) = 1
          /\ \A k \in DOMAIN opLog' :
               opLog'[k].op = "getLocation"
                 => opLog'[k].arg = currentProvider /\ opLog'[k].call = started + 1
          /\ started' = started + 1
          /\ currentProvider' = currentProvider
          /\ \E a \in DOMAIN opLog' :
               /\ opLog'[a].op = "start"
               /\ \A k \in DOMAIN opLog' :
                    opLog'[k].op \in {"getLocation", "update", "resolve", "reject", "onError"}
                      => a < k
          /\ ~Did("onError")' => (loading' /\ error' = NoError) ]_vars

\* a refresh of the IP provider after two acquisitions: loading, no failure,
\* its request outstanding
C27_Witness ==
    /\ Refreshed
    /\ currentProvider = "ip"
    /\ started = 3
    /\ loading /\ error = NoError
    /\ started \in DOMAIN calls
    /\ calls[started].provider = "ip" /\ calls[started].awaiting

\* C28: the device provider never has more than one watch registered with the
\* platform and records the identifier of the one that is registered; so a
\* provider switch, whose cleanup clears the recorded watch, leaves no watch
\* of an earlier acquisition registered.
C28_NoWatchOutlivesSwitch ==
    /\ Cardinality(geoWatches) <= 1
    /\ geoWatches \subseteq {watchIdRef}
    /\ \A p \in Providers \ {"navigator"} : SwitchedTo(p) => geoWatches = {}

\* C29: whenever the derived live-active status is set, a continuous watch of
\* the device provider is registered with the platform.
C29_LiveActiveHasWatch ==
    IsLiveActive => geoWatches # {}

\* C30: in every reachable state a result that is present is a result of the
\* active provider.
C30_ResultOfActiveProvider ==
    location # NoLocation => location.provider = currentProvider

\* a result of the IP provider is shown after a reading of the abandoned device
\* watch has arrived and was discarded
C30_Witness ==
    /\ location # NoLocation
    /\ location.provider = "ip"
    /\ currentProvider = "ip"
    /\ StaleUpdateDelivered

\* the callbacks of the platform and of the HTTP services that carry a result
ResultCallbacks == {"position", "response", "latitude"}

\* C31: a result the controller accepts (an update of the active provider)
\* comes from the acquisition the most recent switchProvider or refresh has
\* started (every acquisition of these runs is started by one of them or by
\* the mount), never from an older acquisition of the same provider.
C31_ResultOfLatestAcquisition ==
    \A k \in Ops :
        (opLog[k].op = "update" /\ opLog[k].arg = currentProvider) =>
            \A r \in Ops :
                (r < k /\ opLog[r].op \in ResultCallbacks) => opLog[r].call = started

\* C32: while the device provider is active, an error the platform reports for
\* the registered watch of a live acquisition is handed to the controller's
\* failure handler (its rejection is queued, and the reaction makes it the
\* current failure), also when a reading has resolved the promise before.
C32_WatchErrorReachesController ==
    \A k \in Ops :
        (/\ opLog[k].op = "positionError"
         /\ currentProvider = "navigator"
         /\ opLog[k].call \in DOMAIN calls
         /\ calls[opLog[k].call].opts.liveTracking
         /\ calls[opLog[k].call].watch = watchIdRef
         /\ watchIdRef \in geoWatches) =>
            \E m \in DOMAIN microtasks : microtasks[m].call = opLog[k].call

\* C33: in every reachable state a controller that is not loading has a result
\* or a failure.
C33_IdleHasResultOrFailure ==
    ~loading => (location # NoLocation \/ error # NoError)
\* after a switch has cleared the result, the acquisition has failed: the
\* controller is not loading and shows the failure alone
C33_Witness ==
    /\ ~loading
    /\ location = NoLocation
    /\ error # NoError
    /\ started >= 2
    /\ Did("catch")

====
